---- MODULE Spec2Model ----
(***************************************************************************)
(* Model of the seisflows workflow execution core:                         *)
(*   seisflows3/workflow/base.py   Base.main, Base.check_stop_resume_cond, *)
(*                                 Base.checkpoint                         *)
(*   seisflows/workflow/migration.py  the Migration flow and its dispatch  *)
(* Indices are 0-based as in the Python source; sequences are 1-based.     *)
(***************************************************************************)
EXTENDS Integers, Sequences, FiniteSets, TLC

\* ------------------------------------------------------------- bounds
MaxFlowLen == 3
MaxPass == 2
MaxTasks == 2
MaxRestarts == 1
MaxSaves == 1
MaxDepth == 3

\* ------------------------------------------------------ Python values
\* A Python object is a record tagged with its type.  A function object
\* carries its __name__ in v, a str its value in v.
Func(n) == [type |-> "function", v |-> n]
Str(s) == [type |-> "str", v |-> s]
NoneObj == [type |-> "NoneType", v |-> ""]

\* `if x:` for x a str or None
Truthy(o) == o.type = "str" /\ o.v # ""

\* obj.__name__ exists for a function object; a str has no such attribute
HasName(o) == o.type = "function"

\* [_.__name__ for _ in seq]: AttributeError as soon as one element has no
\* __name__ (ok = FALSE), otherwise the list of the names as str objects
NameList(seq) ==
    IF \A i \in 1..Len(seq) : HasName(seq[i])
    THEN [ok |-> TRUE, val |-> [i \in 1..Len(seq) |-> Str(seq[i].v)]]
    ELSE [ok |-> FALSE, val |-> <<>>]

\* list.index(x): the 0-based position of the first element equal to x;
\* found = FALSE stands for ValueError
ListIndex(seq, x) ==
    IF \E i \in 1..Len(seq) : seq[i] = x
    THEN [found |-> TRUE,
          idx |-> (CHOOSE i \in 1..Len(seq) :
                      seq[i] = x /\ \A j \in 1..(i - 1) : seq[j] # x) - 1]
    ELSE [found |-> FALSE, idx |-> 0]

\* one bound of a slice, clamped into 0..n as Python does
SliceBound(i, n) ==
    IF i < 0 THEN (IF i + n < 0 THEN 0 ELSE i + n)
    ELSE (IF i > n THEN n ELSE i)

\* seq[start:stop]
PySlice(seq, start_, stop_) ==
    LET lo == SliceBound(start_, Len(seq))
        hi == SliceBound(stop_, Len(seq))
    IN  IF lo >= hi THEN <<>> ELSE SubSeq(seq, lo + 1, hi)

\* -------------------------------------------------------- the flow
\* The step functions of a flow; the names are those of the Migration flow.
FlowFunctions ==
    {"evaluate_initial_misfit", "evaluate_gradient",
     "process_kernels", "scale_gradient"}

\* a name that is no step of any flow
NotAStep == "not_a_step"

\* every ordered tuple of distinct step functions, up to MaxFlowLen long
Flows ==
    UNION {
        {f \in [1..n -> {Func(s) : s \in FlowFunctions}] :
            \A i, j \in 1..n : i # j => f[i] # f[j]}
        : n \in 0..MaxFlowLen}

\* the values PAR.RESUME_FROM and PAR.STOP_AFTER can take: unset (None),
\* the empty string, a step name, or any other string
ParValues ==
    {NoneObj, Str("")} \cup {Str(s) : s \in FlowFunctions} \cup {Str(NotAStep)}

\* 0-based position of the step named s in flow fl (fl has the step)
PosOf(fl, s) == (CHOOSE i \in 1..Len(fl) : fl[i].v = s) - 1

IsStepOf(fl, s) == \E i \in 1..Len(fl) : fl[i].v = s

StepNames(fl) == [i \in 1..Len(fl) |-> fl[i].v]

\* ------------------------------------------ check_stop_resume_cond
\* The result of a call: kind "return" with the (start, stop) pair, or the
\* way the call ended otherwise: kind "exception" (type AttributeError or
\* IndexError, uncaught) or kind "exit" (sys.exit(-1) after the error
\* message).  msgs are the logged "WORKFLOW WILL ..." messages.
CursorResult(kind, type, start_, stop_, msgs) ==
    [kind |-> kind, type |-> type, start |-> start_, stop |-> stop_,
     msgs |-> msgs]

\* (variant of fxnames that keeps the function objects instead of their
\* names)
fxnamesFunctions(fl) == fl

\* lines 166-170
fxnames(fl) == NameList(fl).val

DefaultStart == 0
DefaultStop == -1

\* lines 174-189: the RESUME_FROM block
ResumeBlock(fl, par) ==
    IF ~Truthy(par.RESUME_FROM)
    THEN CursorResult("return", "", DefaultStart, DefaultStop, <<>>)
    ELSE LET names == NameList(fxnames(fl)) IN
         IF ~names.ok
         THEN CursorResult("exception", "AttributeError", DefaultStart,
                           DefaultStop, <<>>)
         ELSE LET at == ListIndex(names.val, par.RESUME_FROM) IN
              IF ~at.found
              THEN CursorResult("exit", "SystemExit", DefaultStart,
                                DefaultStop, <<>>)
              ELSE CursorResult("return", "", at.idx, DefaultStop,
                       <<[text |-> "WORKFLOW WILL RESUME FROM FUNC",
                          name |-> fl[at.idx + 1].v]>>)

\* lines 193-209: the STOP_AFTER block, entered with the resume block's result
StopBlock(fl, par, r) ==
    IF ~Truthy(par.STOP_AFTER)
    THEN r
    ELSE LET names == NameList(fxnames(fl)) IN
         IF ~names.ok
         THEN CursorResult("exception", "AttributeError", r.start, r.stop,
                           r.msgs)
         ELSE LET at == ListIndex(names.val, par.STOP_AFTER) IN
              IF ~at.found
              THEN CursorResult("exit", "SystemExit", r.start, r.stop, r.msgs)
              ELSE LET stop_idx == at.idx + 1 IN
                   IF stop_idx >= Len(fl)
                   THEN CursorResult("exception", "IndexError", r.start,
                                     stop_idx, r.msgs)
                   ELSE CursorResult("return", "", r.start, stop_idx,
                            Append(r.msgs,
                                [text |-> "WORKFLOW WILL STOP AFTER FUNC",
                                 name |-> fl[stop_idx + 1].v]))

check_stop_resume_cond(fl, par) ==
    LET r == ResumeBlock(fl, par) IN
    IF r.kind # "return" THEN r ELSE StopBlock(fl, par, r)

\* ---------------------------------------------------------- state
VARIABLES
    flow,        \* the tuple of step functions main() iterates
    PAR,         \* the parameters RESUME_FROM and STOP_AFTER
    NTASK,       \* the fan-out count of a dispatch
    pc,          \* where main() is: idle, for, func, returned, raised,
                 \* exited, killed
    start,       \* main's local start
    stop,        \* main's local stop
    slice,       \* the tuple flow[start:stop] the for loop iterates
    idx,         \* how many elements of slice the loop has taken
    pass,        \* the pass (iteration) being executed, from 1
    run,         \* the process: 1, and one more after each restart
    outcome,     \* how main() ended
    logged,      \* the messages check_stop_resume_cond logged
    checkpoint,  \* the checkpoint record on disk
    running,     \* the task instances of the current dispatch in flight
    dispatched,  \* whether the current step has called system.run
    dispatch,    \* the current step's system.run call: its target, the
                 \* instances started, and how it has ended so far
    killedAfter, \* the step that had just completed when the process was
                 \* last killed ("" when none had)
    log          \* history of this process's step events, for stating the
                 \* properties

\* the checkpoint store: the durable record, save's temporary file and a
\* reader in the middle of a load
VARIABLES
    durableFile, \* the file under the durable name
    tempFile,    \* the file under the temporary name
    saving,      \* the serialised record save is writing
    savePc,      \* where save is: idle, writing, crashed
    saves,       \* how many times save has been called
    handle,      \* the file load has open: none, durable, detached
    openFile,    \* the replaced file a detached handle still reads
    got,         \* the fields load has read so far
    loaded,      \* what load returned
    seen         \* the records that were the durable one during the load

\* the parameter/path registry of a workflow class
VARIABLES
    cls,         \* the workflow class constructed: Base or Migration
    given,       \* the names the parameter file sets
    required,    \* the registry self.required
    regPc,       \* new, declaring, registered, valid, invalid
    ndecl,       \* how many of Migration's own declarations are made
    problems,    \* the entries validate() found missing
    PAR_CASE,    \* PAR.CASE
    PATH,        \* the entries MODEL_TRUE and DATA of PATH
    disk,        \* the paths that exist on disk
    checked      \* how check() ended

\* the workflow and its dispatched work
wvars ==
    <<flow, PAR, NTASK, pc, start, stop, slice, idx, pass, run, outcome,
      logged, checkpoint, running, dispatched, dispatch, killedAfter, log>>

svars ==
    <<durableFile, tempFile, saving, savePc, saves, handle, openFile, got,
      loaded, seen>>

rvars ==
    <<cls, given, required, regPc, ndecl, problems, PAR_CASE, PATH, disk,
      checked>>

\* the calls of Migration.main on the stack
VARIABLES
    depth,       \* how many frames of Migration.main are on the stack
    args         \* the arguments of the innermost call

mvars == <<depth, args>>

vars == <<wvars, svars, rvars, mvars>>

Absent == "absent"

NoOutcome == [kind |-> "none", type |-> "", where |-> "", value |-> ""]
Returned(v) == [kind |-> "return", type |-> "", where |-> "", value |-> v]
Raised(t, w) == [kind |-> "exception", type |-> t, where |-> w, value |-> ""]
Exited(code) == [kind |-> "exit", type |-> "SystemExit", where |->
                 "check_stop_resume_cond", value |-> code]

Event(e, s) ==
    [ev |-> e, step |-> s, pass |-> pass,
     inflight |-> Cardinality(running), ckpt |-> checkpoint]

\* ------------------------------------------------ the dispatched work
\* What each step of the Migration flow hands to system.run: the target
\* (module and method) and the single flag; NoCall for a step that calls
\* the system not at all.  evaluate_initial_misfit is inherited: it may
\* dispatch the forward evaluation or nothing.
Call(classname, method, single) ==
    [classname |-> classname, method |-> method, single |-> single]

NoCall == Call("", "", FALSE)

\* (variant of StepDispatch: process_kernels without single=True)
StepDispatchKernelsFanOut(step) ==
    CASE step = "evaluate_gradient" -> {Call("solver", "eval_grad", FALSE)}
      [] step = "process_kernels" ->
            {Call("solver", "postprocess_kernels", FALSE)}
      [] step = "scale_gradient" -> {NoCall}
      [] OTHER -> {NoCall, Call("solver", "eval_func", FALSE)}

\* (variant of StepDispatch: evaluate_gradient run once instead of NTASK
\* times)
StepDispatchGradientOnce(step) ==
    CASE step = "evaluate_gradient" -> {Call("solver", "eval_grad", TRUE)}
      [] step = "process_kernels" ->
            {Call("solver", "postprocess_kernels", TRUE)}
      [] step = "scale_gradient" -> {NoCall}
      [] OTHER -> {NoCall, Call("solver", "eval_func", FALSE)}

StepDispatch(step) ==
    CASE step = "evaluate_gradient" -> {Call("solver", "eval_grad", FALSE)}
      [] step = "process_kernels" ->
            {Call("solver", "postprocess_kernels", TRUE)}
      [] step = "scale_gradient" -> {NoCall}
      [] OTHER -> {NoCall, Call("solver", "eval_func", FALSE)}

\* the instance indices a call starts: one with single, else 0..n-1
Instances(single, n) == IF single THEN {0} ELSE 0..(n - 1)

\* the value of SEISFLOWS_TASKID in the environment of an instance that was
\* never given one
EnvUnset == -1

\* (variant of TaskEnv: system.run does not export the task id)
TaskEnvUnset(i) == EnvUnset

\* the SEISFLOWS_TASKID system.run exports to instance i
TaskEnv(i) == i

\* system.taskid(): the exported id; without one, the TaskIDWarning and 0
taskid(env) == IF env = EnvUnset THEN 0 ELSE env

\* the messages of seisflows3.tools.msg a failed dispatch is reported with
NoReport ==
    [template |-> "", classname |-> "", method |-> "", job_id |-> -1,
     tasktime |-> ""]

\* (variant of TaskError_SLURM that does not name the instance)
TaskError_SLURM_NoId(classname, method, job_id) ==
    [template |-> "TASK ERROR", classname |-> classname, method |-> method,
     job_id |-> -1, tasktime |-> ""]

TaskError_SLURM(classname, method, job_id) ==
    [template |-> "TASK ERROR", classname |-> classname, method |-> method,
     job_id |-> job_id, tasktime |-> ""]

\* (variant of TaskTimeout that does not name the instance)
TaskTimeout_NoId(classname, method, job_id, tasktime) ==
    [template |-> "TASK TIMED OUT", classname |-> classname,
     method |-> method, job_id |-> -1, tasktime |-> tasktime]

TaskTimeout(classname, method, job_id, tasktime) ==
    [template |-> "TASK TIMED OUT", classname |-> classname,
     method |-> method, job_id |-> job_id, tasktime |-> tasktime]

\* a system.run call in progress or over: result is none (no call), pending,
\* success, failure or timeout; failed is the instance that ended it
Dispatch(call, started, ok, result, failed, report) ==
    [classname |-> call.classname, method |-> call.method,
     single |-> call.single, started |-> started,
     env |-> [i \in started |-> TaskEnv(i)], ok |-> ok, result |-> result,
     failed |-> failed, report |-> report]

NoDispatch == Dispatch(NoCall, {}, {}, "none", -1, NoReport)

\* ------------------------------------------------ the checkpoint store
\* Base.checkpoint (lines 213-218) calls save(): the record {last completed
\* step, pass counter} is serialised field by field into a file.
Records == [step : FlowFunctions, pass : 1..MaxPass]

RecordFields == <<"step", "pass">>

NumFields == Len(RecordFields)

\* the record as the sequence of fields written to the file
Serialize(rec) == <<rec.step, rec.pass>>

\* the record a complete sequence of fields stands for
Parse(data) == [step |-> data[1], pass |-> data[2]]

File(data) == [exists |-> TRUE, data |-> data]
NoFile == [exists |-> FALSE, data |-> <<>>]

\* what load returns: the record read; absent when there is no file; a
\* torn result when the file ended before the record did
LoadResult(kind, data) == [kind |-> kind, data |-> data]
NoResult == LoadResult("none", <<>>)
LoadOf(f) ==
    IF ~f.exists THEN LoadResult("absent", <<>>)
    ELSE IF Len(f.data) = NumFields THEN LoadResult("record", f.data)
    ELSE LoadResult("torn", f.data)

\* (variant of SavePath: save opens the durable file itself for writing)
SavePathDurable == "durable"

\* save writes to a temporary location and replaces the durable file by it
SavePath == "temp"

StoreIdle ==
    /\ tempFile = NoFile
    /\ saving = <<>>
    /\ savePc = "idle"
    /\ saves = 0
    /\ handle = "none"
    /\ openFile = NoFile
    /\ got = <<>>
    /\ loaded = NoResult
    /\ seen = {}

\* ------------------------------------------- the parameter/path registry
\* One sf.par(...) or sf.path(...) call: the entry it declares.
Decl(kind, name, req, default) ==
    [kind |-> kind, name |-> name, required |-> req, default |-> default]

NoDefault == "None"

\* base.py lines 40-80, in order
BaseDeclarations ==
    <<Decl("par", "CASE", TRUE, NoDefault),
      Decl("par", "RESUME_FROM", FALSE, NoDefault),
      Decl("par", "STOP_AFTER", FALSE, NoDefault),
      Decl("par", "SAVEMODEL", FALSE, "True"),
      Decl("par", "SAVEGRADIENT", FALSE, "True"),
      Decl("par", "SAVEKERNELS", FALSE, "False"),
      Decl("par", "SAVETRACES", FALSE, "False"),
      Decl("par", "SAVERESIDUALS", FALSE, "False"),
      Decl("par", "SAVEAS", FALSE, "binary"),
      Decl("path", "MODEL_INIT", TRUE, NoDefault),
      Decl("path", "MODEL_TRUE", FALSE, NoDefault),
      Decl("path", "DATA", FALSE, NoDefault)>>

\* migration.py lines 30-69, in order
MigrationDeclarations ==
    <<Decl("par", "CASE", FALSE, "data"),
      Decl("par", "SAVEGRADIENT", FALSE, "True"),
      Decl("par", "SAVEKERNELS", FALSE, "False"),
      Decl("par", "SAVEAS", FALSE, "binary"),
      Decl("path", "GRAD", FALSE, "WORKDIR/scratch/evalgrad"),
      Decl("path", "MODEL_TRUE", FALSE, "WORKDIR/specfem/MODEL_TRUE")>>

Key(d) == <<d.kind, d.name>>

\* the names a registry declares
Declared(reg) == {Key(d) : d \in reg}

EmptyRegistry == {}

\* declare: the entry is added; an entry of that kind and name is replaced
declare(reg, d) == {e \in reg : Key(e) # Key(d)} \cup {d}

RECURSIVE DeclareAll(_, _)
DeclareAll(decls, reg) ==
    IF decls = <<>> THEN reg
    ELSE DeclareAll(Tail(decls), declare(reg, Head(decls)))

\* Base.required: a registry holding the base class's declarations
BaseRequired == DeclareAll(BaseDeclarations, EmptyRegistry)

\* (variant of AfterSuperInit: the subclass starts a registry of its own)
AfterSuperInitFresh(reg) == EmptyRegistry

\* migration.py lines 28-30: after super().__init__() the subclass declares
\* into self.required, the registry the base class's __init__ left
AfterSuperInit(reg) == reg

\* the names a parameter file may set or leave out
FileNames ==
    {<<"par", "CASE">>, <<"par", "SAVEAS">>, <<"path", "MODEL_INIT">>,
     <<"path", "MODEL_TRUE">>, <<"path", "DATA">>}

\* the arguments of a call of Migration.main
Args(fl, return_flow) == [flow |-> fl, return_flow |-> return_flow]

NoArgs == Args("None", FALSE)

MigrationIdle ==
    /\ depth = 0
    /\ args = NoArgs

\* ------------------------------------------------------- check()
\* the values PAR.CASE takes in a parameter file
CaseValues == {"data", "synthetic", "SYNTHETIC", "Synthetic"}

\* the paths a parameter file gives for DATA and MODEL_TRUE
FilePath(name) == IF name = "DATA" THEN "/data" ELSE "/model_true"

\* the paths that may or may not exist on disk: those of the parameter file
\* and Migration's default for MODEL_TRUE
DiskPaths == {FilePath("DATA"), FilePath("MODEL_TRUE"),
              "WORKDIR/specfem/MODEL_TRUE"}

\* str.upper() on the values of CASE
Upper(s) ==
    CASE s \in {"synthetic", "Synthetic", "SYNTHETIC"} -> "SYNTHETIC"
      [] s = "data" -> "DATA"
      [] OTHER -> s

\* (variant of IsSynthetic that compares CASE as it is written)
IsSyntheticAsWritten(case) == case = "synthetic"

\* base.py line 94, migration.py line 77: CASE.upper() == "SYNTHETIC"
IsSynthetic(case) == Upper(case) = "SYNTHETIC"

\* exists(path) of tools.wrappers: False for None, else whether on disk
exists(v, dsk) == v # NoDefault /\ v \in dsk

\* how check() ended: kind none (not called), pass, or exception
CheckResult(kind, type, message, val) ==
    [kind |-> kind, type |-> type, message |-> message, validate |-> val]

NotChecked == CheckResult("none", "", "", FALSE)

\* the required entries of reg a parameter file giving giv leaves out
Missing(reg, giv) ==
    {Key(d) : d \in {e \in reg : e.required /\ Key(e) \notin giv}}

\* the value of entry k once a passing validate() has filled in the default
\* of a declared entry the parameter file did not give
WithDefault(reg, k, v) ==
    IF v = Absent /\ k \in Declared(reg)
    THEN (CHOOSE e \in reg : Key(e) = k).default
    ELSE v

\* PAR.CASE and PATH after validate() has passed
Defaulted(reg, case, path) ==
    [case |-> WithDefault(reg, <<"par", "CASE">>, case),
     path |-> [n \in DOMAIN path |->
                  WithDefault(reg, <<"path", n>>, path[n])]]

\* base.py lines 84-97, Base.check(validate): the way it ends, and PAR.CASE
\* and PATH as it leaves them.  Reading an entry PAR or PATH does not have
\* is an AttributeError; None has no upper().
base_check(val, reg, giv, case, path, dsk) ==
    LET Fail(type, message, c) ==
            [result |-> CheckResult("exception", type, message, val),
             case |-> c.case, path |-> c.path]
        before == [case |-> case, path |-> path]
    IN  IF val /\ Missing(reg, giv) # {}
        THEN Fail("ConfigurationError", "validate", before)
        ELSE LET c == IF val THEN Defaulted(reg, case, path) ELSE before IN
             IF c.case \in {Absent, NoDefault}
             THEN Fail("AttributeError", "PAR.CASE", c)
             ELSE IF IsSynthetic(c.case) /\ c.path.MODEL_TRUE = Absent
             THEN Fail("AttributeError", "PATH.MODEL_TRUE", c)
             ELSE IF IsSynthetic(c.case) /\ ~exists(c.path.MODEL_TRUE, dsk)
             THEN Fail("AssertionError",
                       "CASE == SYNTHETIC requires PATH.MODEL_TRUE", c)
             ELSE IF c.path.DATA = Absent
             THEN Fail("AttributeError", "PATH.DATA", c)
             ELSE IF ~exists(c.path.DATA, dsk) /\ c.path.MODEL_TRUE = Absent
             THEN Fail("AssertionError", "DATA or MODEL_TRUE must exist", c)
             ELSE [result |-> CheckResult("pass", "", "", val),
                   case |-> c.case, path |-> c.path]

\* migration.py lines 71-82, Migration.check(validate): super().check, then
\* its own two tests; os.path.exists(None) is a TypeError
migration_check(val, reg, giv, case, path, dsk) ==
    LET s == base_check(val, reg, giv, case, path, dsk)
        Fail(type, message) ==
            [s EXCEPT !.result = CheckResult("exception", type, message, val)]
    IN  IF s.result.kind # "pass" THEN s
        ELSE IF IsSynthetic(s.case) /\ s.path.MODEL_TRUE = NoDefault
        THEN Fail("TypeError", "os.path.exists")
        ELSE IF IsSynthetic(s.case) /\ s.path.MODEL_TRUE \notin dsk
        THEN Fail("AssertionError",
                  "CASE == SYNTHETIC requires PATH.MODEL_TRUE")
        ELSE IF (s.path.DATA \in {NoDefault, ""} \/ s.path.DATA \notin dsk)
                /\ s.path.MODEL_TRUE = Absent
        THEN Fail("AssertionError", "DATA or MODEL_TRUE must exist")
        ELSE s

RegistryIdle ==
    /\ cls = "Base"
    /\ given = {}
    /\ required = EmptyRegistry
    /\ regPc = "new"
    /\ ndecl = 0
    /\ problems = {}
    /\ PAR_CASE = Absent
    /\ PATH = [MODEL_TRUE |-> Absent, DATA |-> Absent]
    /\ disk = {}
    /\ checked = NotChecked

Init ==
    /\ flow \in Flows
    /\ PAR \in [RESUME_FROM : ParValues, STOP_AFTER : ParValues]
    /\ NTASK \in 1..MaxTasks
    /\ pc = "idle"
    /\ start = DefaultStart
    /\ stop = DefaultStop
    /\ slice = <<>>
    /\ idx = 0
    /\ pass = 1
    /\ run = 1
    /\ outcome = NoOutcome
    /\ logged = <<>>
    /\ checkpoint = Absent
    /\ running = {}
    /\ dispatched = FALSE
    /\ dispatch = NoDispatch
    /\ killedAfter = ""
    /\ log = <<>>
    /\ durableFile = NoFile
    /\ StoreIdle
    /\ RegistryIdle
    /\ MigrationIdle

\* ------------------------------------------------------- Base.main
\* lines 110-131: the flow is built; return_flow returns it at once;
\* otherwise the cursor is resolved, and an exception or sys.exit of
\* check_stop_resume_cond ends main() before the loop.
\* (variant of MainBody that calls the first step of the flow before the
\* cursor is resolved)
MainBodyStepFirst(return_flow, hist) ==
    LET r == check_stop_resume_cond(flow, PAR)
        first == IF Len(flow) > 0
                 THEN <<Event("begin", flow[1].v), Event("end", flow[1].v)>>
                 ELSE <<>>
    IN  /\ ~return_flow
        /\ logged' = logged \o r.msgs
        /\ log' = hist \o first
        /\ IF r.kind = "return"
           THEN /\ start' = r.start
                /\ stop' = r.stop
                /\ slice' = PySlice(flow, r.start, r.stop)
                /\ idx' = 0
                /\ pc' = "for"
                /\ outcome' = NoOutcome
           ELSE /\ pc' = IF r.kind = "exit" THEN "exited" ELSE "raised"
                /\ outcome' = IF r.kind = "exit"
                              THEN Exited("-1")
                              ELSE Raised(r.type, "check_stop_resume_cond")
                /\ UNCHANGED <<start, stop, slice, idx>>

\* hist is the event history the call starts from.
MainBody(return_flow, hist) ==
    IF return_flow
    THEN /\ pc' = "returned"
         /\ outcome' = Returned("flow")
         /\ log' = hist
         /\ UNCHANGED <<start, stop, slice, idx, logged>>
    ELSE LET r == check_stop_resume_cond(flow, PAR) IN
         /\ logged' = logged \o r.msgs
         /\ log' = hist
         /\ IF r.kind = "return"
            THEN /\ start' = r.start
                 /\ stop' = r.stop
                 /\ slice' = PySlice(flow, r.start, r.stop)
                 /\ idx' = 0
                 /\ pc' = "for"
                 /\ outcome' = NoOutcome
            ELSE /\ pc' = IF r.kind = "exit" THEN "exited" ELSE "raised"
                 /\ outcome' = IF r.kind = "exit"
                               THEN Exited("-1")
                               ELSE Raised(r.type, "check_stop_resume_cond")
                 /\ UNCHANGED <<start, stop, slice, idx>>

main ==
    /\ pc = "idle"
    /\ \E return_flow \in BOOLEAN : MainBody(return_flow, log)
    /\ UNCHANGED <<flow, PAR, NTASK, pass, run, checkpoint, running,
                   dispatched, dispatch, killedAfter>>
    /\ UNCHANGED <<svars, rvars, mvars>>

\* (variant of ForReady in which the loop does not wait for func() to return)
ForReadyOverlap == pc \in {"for", "func"}

\* The for loop takes its next element only between two executions of its
\* body: func() is a synchronous call.
ForReady == pc = "for"

\* line 134-135: the loop takes the next function of the slice and calls it
ForNext ==
    /\ ForReady
    /\ idx < Len(slice)
    /\ idx' = idx + 1
    /\ pc' = "func"
    /\ dispatched' = FALSE
    /\ dispatch' = NoDispatch
    /\ log' = Append(log, Event("begin", slice[idx + 1].v))
    /\ UNCHANGED <<flow, PAR, NTASK, start, stop, slice, pass, run, outcome,
                   logged, checkpoint, running, killedAfter>>
    /\ UNCHANGED <<svars, rvars, mvars>>

\* the step's own code is running: it is not blocked in system.run
StepFree == dispatch.result \in {"none", "success"}

\* the step has made the system.run call its code makes
StepCalled == dispatched \/ NoCall \in StepDispatch(slice[idx].v)

\* lines 135-146: func() returns; with STOP_AFTER set main calls
\* self.check_stop_after, which Base does not define (AttributeError);
\* then start, stop = 0, -1
FuncReturn ==
    /\ pc = "func"
    /\ StepFree
    /\ StepCalled
    /\ log' = Append(log, Event("end", slice[idx].v))
    /\ IF Truthy(PAR.STOP_AFTER)
       THEN /\ pc' = "raised"
            /\ outcome' = Raised("AttributeError", "main")
            /\ UNCHANGED <<start, stop>>
       ELSE /\ pc' = "for"
            /\ start' = DefaultStart
            /\ stop' = DefaultStop
            /\ outcome' = outcome
    /\ UNCHANGED <<flow, PAR, NTASK, slice, idx, pass, run, logged,
                   checkpoint, running, dispatched, dispatch, killedAfter>>
    /\ UNCHANGED <<svars, rvars, mvars>>

\* (variant of FuncRaise in which main catches the exception and calls the
\* step again)
FuncRaiseRetry ==
    /\ pc = "func"
    /\ StepFree
    /\ pc' = "for"
    /\ idx' = idx - 1
    /\ log' = Append(log, Event("raise", slice[idx].v))
    /\ UNCHANGED <<flow, PAR, NTASK, start, stop, slice, pass, run, outcome,
                   logged, checkpoint, running, dispatched, dispatch,
                   killedAfter>>
    /\ UNCHANGED <<svars, rvars, mvars>>

\* line 135: func() raises; nothing in main catches it
FuncRaise ==
    /\ pc = "func"
    /\ StepFree
    /\ pc' = "raised"
    /\ outcome' = Raised("Exception", slice[idx].v)
    /\ log' = Append(log, Event("raise", slice[idx].v))
    /\ UNCHANGED <<flow, PAR, NTASK, start, stop, slice, idx, pass, run,
                   logged, checkpoint, running, dispatched, dispatch,
                   killedAfter>>
    /\ UNCHANGED <<svars, rvars, mvars>>

\* line 148: the slice is exhausted, main() returns None
ForEnd ==
    /\ ForReady
    /\ idx = Len(slice)
    /\ pc' = "returned"
    /\ outcome' = Returned("None")
    /\ UNCHANGED <<flow, PAR, NTASK, start, stop, slice, idx, pass, run,
                   logged, checkpoint, running, dispatched, dispatch,
                   killedAfter, log>>
    /\ UNCHANGED <<svars, rvars, mvars>>

\* lines 143-146: an inversion-like workflow executes the flow repeatedly,
\* each further pass over flow[start:stop] with the start, stop main holds
NextPass ==
    /\ pc = "returned"
    /\ outcome = Returned("None")
    /\ pass < MaxPass
    /\ pass' = pass + 1
    /\ slice' = PySlice(flow, start, stop)
    /\ idx' = 0
    /\ pc' = "for"
    /\ outcome' = NoOutcome
    /\ UNCHANGED <<flow, PAR, NTASK, start, stop, run, logged, checkpoint,
                   running, dispatched, dispatch, killedAfter, log>>
    /\ UNCHANGED <<svars, rvars, mvars>>

\* ------------------------------------------------------- dispatch
\* A step calls system.run with its target: NTASK instances, or one with
\* single=True (migration.py lines 122-123 and 134-135), each given its task
\* id; the call blocks the step until it succeeds or fails.
SystemRun ==
    /\ pc = "func"
    /\ ~dispatched
    /\ \E call \in StepDispatch(slice[idx].v) \ {NoCall} :
          LET inst == Instances(call.single, NTASK) IN
          /\ running' = inst
          /\ dispatch' = Dispatch(call, inst, {}, "pending", -1, NoReport)
    /\ dispatched' = TRUE
    /\ UNCHANGED <<flow, PAR, NTASK, pc, start, stop, slice, idx, pass, run,
                   outcome, logged, checkpoint, killedAfter, log>>
    /\ UNCHANGED <<svars, rvars, mvars>>

\* (variant of TaskDone in which the call returns at the first completion)
TaskDoneFirstWins ==
    /\ \E i \in running :
          /\ running' = running \ {i}
          /\ dispatch' =
                [dispatch EXCEPT
                    !.ok = @ \cup {i},
                    !.result = IF @ = "pending" THEN "success" ELSE @]
    /\ UNCHANGED <<flow, PAR, NTASK, pc, start, stop, slice, idx, pass, run,
                   outcome, logged, checkpoint, dispatched, killedAfter, log>>
    /\ UNCHANGED <<svars, rvars, mvars>>

\* An instance completes with zero status; the call returns success when
\* the last one has.
TaskDone ==
    /\ \E i \in running :
          /\ running' = running \ {i}
          /\ dispatch' =
                [dispatch EXCEPT
                    !.ok = @ \cup {i},
                    !.result = IF @ = "pending" /\ running = {i}
                               THEN "success" ELSE @]
    /\ UNCHANGED <<flow, PAR, NTASK, pc, start, stop, slice, idx, pass, run,
                   outcome, logged, checkpoint, dispatched, killedAfter, log>>
    /\ UNCHANGED <<svars, rvars, mvars>>

\* An instance completes with non-zero status: the call fails at once,
\* reporting the task error, and the failure leaves the step and main().
TaskFail ==
    /\ pc = "func"
    /\ dispatch.result = "pending"
    /\ \E i \in running :
          /\ running' = running \ {i}
          /\ dispatch' =
                [dispatch EXCEPT
                    !.result = "failure",
                    !.failed = i,
                    !.report = TaskError_SLURM(dispatch.classname,
                                               dispatch.method, i)]
    /\ pc' = "raised"
    /\ outcome' = Raised("TaskError", slice[idx].v)
    /\ log' = Append(log, Event("raise", slice[idx].v))
    /\ UNCHANGED <<flow, PAR, NTASK, start, stop, slice, idx, pass, run,
                   logged, checkpoint, dispatched, killedAfter>>
    /\ UNCHANGED <<svars, rvars, mvars>>

\* An instance exceeds the task time limit: the call fails with the timeout
\* message, the other instances are cancelled as far as possible, and the
\* workflow stops.
TaskTimesOut ==
    /\ pc = "func"
    /\ dispatch.result = "pending"
    /\ \E i \in running :
          /\ running' \in SUBSET (running \ {i})
          /\ dispatch' =
                [dispatch EXCEPT
                    !.result = "timeout",
                    !.failed = i,
                    !.report = TaskTimeout(dispatch.classname,
                                           dispatch.method, i, "TASKTIME")]
    /\ pc' = "raised"
    /\ outcome' = Raised("TaskTimeout", slice[idx].v)
    /\ log' = Append(log, Event("raise", slice[idx].v))
    /\ UNCHANGED <<flow, PAR, NTASK, start, stop, slice, idx, pass, run,
                   logged, checkpoint, dispatched, killedAfter>>
    /\ UNCHANGED <<svars, rvars, mvars>>

\* ------------------------------------------------- kill and restart
\* The process is killed while main() is in its loop; its tasks die with
\* it.  Between two steps, the kill comes immediately after a step completed.
Kill ==
    /\ pc \in {"for", "func"}
    /\ pc' = "killed"
    /\ running' = {}
    /\ dispatched' = FALSE
    /\ dispatch' = NoDispatch
    /\ killedAfter' = IF pc = "for" /\ idx > 0 THEN slice[idx].v ELSE ""
    /\ UNCHANGED <<flow, PAR, NTASK, start, stop, slice, idx, pass, run,
                   outcome, logged, checkpoint, log>>
    /\ UNCHANGED <<svars, rvars, mvars>>

\* The workflow is started again with the same parameters: a new process
\* calls main(); only the disk (the checkpoint) survives.
Restart ==
    /\ pc = "killed"
    /\ run <= MaxRestarts
    /\ run' = run + 1
    /\ pass' = 1
    /\ MainBody(FALSE, <<>>)
    /\ UNCHANGED <<flow, PAR, NTASK, checkpoint, running, dispatched,
                   dispatch, killedAfter>>
    /\ UNCHANGED <<svars, rvars, mvars>>

Next ==
    \/ main
    \/ ForNext
    \/ FuncReturn
    \/ FuncRaise
    \/ ForEnd
    \/ NextPass
    \/ SystemRun
    \/ TaskDone
    \/ TaskFail
    \/ TaskTimesOut
    \/ Kill
    \/ Restart

Spec == Init /\ [][Next]_vars

\* the workflow at rest, while the store or the registry is looked at
WorkflowIdle ==
    /\ flow = <<>>
    /\ PAR = [RESUME_FROM |-> NoneObj, STOP_AFTER |-> NoneObj]
    /\ NTASK = 1
    /\ pc = "idle"
    /\ start = DefaultStart
    /\ stop = DefaultStop
    /\ slice = <<>>
    /\ idx = 0
    /\ pass = 1
    /\ run = 1
    /\ outcome = NoOutcome
    /\ logged = <<>>
    /\ checkpoint = Absent
    /\ running = {}
    /\ dispatched = FALSE
    /\ dispatch = NoDispatch
    /\ killedAfter = ""
    /\ log = <<>>

\* ------------------------------------------------- save and load
\* The store of a fresh workflow (no record) or of one that ran before.
InitStore ==
    /\ WorkflowIdle
    /\ RegistryIdle
    /\ MigrationIdle
    /\ durableFile \in {NoFile} \cup {File(Serialize(r)) : r \in Records}
    /\ StoreIdle

\* the file save is writing
SaveTarget == IF SavePath = "temp" THEN tempFile ELSE durableFile

\* a load is under way
Loading == handle # "none"

\* save(state) begins: the file to write is created, or truncated
SaveBegin ==
    /\ savePc = "idle"
    /\ saves < MaxSaves
    /\ saves' = saves + 1
    /\ \E rec \in Records : saving' = Serialize(rec)
    /\ savePc' = "writing"
    /\ IF SavePath = "temp"
       THEN tempFile' = File(<<>>) /\ UNCHANGED durableFile
       ELSE durableFile' = File(<<>>) /\ UNCHANGED tempFile
    /\ UNCHANGED <<handle, openFile, got, loaded, seen>>
    /\ UNCHANGED <<wvars, rvars, mvars>>

\* save writes the next field of the record
SaveWrite ==
    /\ savePc = "writing"
    /\ Len(SaveTarget.data) < NumFields
    /\ LET f == File(Append(SaveTarget.data,
                            saving[Len(SaveTarget.data) + 1]))
       IN  IF SavePath = "temp"
           THEN tempFile' = f /\ UNCHANGED durableFile
           ELSE durableFile' = f /\ UNCHANGED tempFile
    /\ UNCHANGED <<saving, savePc, handle, openFile, got, loaded, seen>>
    /\ UNCHANGED <<saves, wvars, rvars, mvars>>

\* the record is written: the temporary file replaces the durable one in
\* one step; a load that has the replaced file open keeps reading it
SaveReplace ==
    /\ savePc = "writing"
    /\ Len(SaveTarget.data) = NumFields
    /\ savePc' = "idle"
    /\ saving' = <<>>
    /\ IF SavePath = "temp"
       THEN /\ durableFile' = tempFile
            /\ tempFile' = NoFile
            /\ IF handle = "durable"
               THEN handle' = "detached" /\ openFile' = durableFile
               ELSE UNCHANGED <<handle, openFile>>
       ELSE UNCHANGED <<durableFile, tempFile, handle, openFile>>
    /\ seen' = IF Loading THEN seen \cup {LoadOf(File(saving))} ELSE seen
    /\ UNCHANGED <<got, loaded>>
    /\ UNCHANGED <<saves, wvars, rvars, mvars>>

\* the process dies inside save; what it wrote so far stays on disk
SaveCrash ==
    /\ savePc = "writing"
    /\ savePc' = "crashed"
    /\ UNCHANGED <<durableFile, tempFile, saving, handle, openFile, got,
                   loaded, seen>>
    /\ UNCHANGED <<saves, wvars, rvars, mvars>>

\* the workflow is started again after the crash
SaveRecover ==
    /\ savePc = "crashed"
    /\ savePc' = "idle"
    /\ saving' = <<>>
    /\ UNCHANGED <<durableFile, tempFile, handle, openFile, got, loaded,
                   seen>>
    /\ UNCHANGED <<saves, wvars, rvars, mvars>>

\* load() begins: absent when there is no durable file, else it is opened
LoadOpen ==
    /\ handle = "none"
    /\ loaded = NoResult
    /\ seen' = {LoadOf(durableFile)}
    /\ IF durableFile.exists
       THEN handle' = "durable" /\ loaded' = loaded
       ELSE handle' = handle /\ loaded' = LoadOf(durableFile)
    /\ got' = <<>>
    /\ UNCHANGED <<durableFile, tempFile, saving, savePc, openFile>>
    /\ UNCHANGED <<saves, wvars, rvars, mvars>>

\* load reads the next field of the file it has open, and returns at the
\* end of the record or of the file
LoadRead ==
    /\ Loading
    /\ LET f == IF handle = "durable" THEN durableFile ELSE openFile
           n == Len(got)
       IN  IF n < Len(f.data)
           THEN LET g == Append(got, f.data[n + 1])
                IN  /\ got' = g
                    /\ IF Len(g) = NumFields
                       THEN /\ loaded' = LoadOf(File(g))
                            /\ handle' = "none"
                            /\ openFile' = NoFile
                       ELSE UNCHANGED <<loaded, handle, openFile>>
           ELSE /\ loaded' = LoadOf(File(got))
                /\ handle' = "none"
                /\ openFile' = NoFile
                /\ got' = got
    /\ UNCHANGED <<durableFile, tempFile, saving, savePc, seen>>
    /\ UNCHANGED <<saves, wvars, rvars, mvars>>

NextStore ==
    \/ SaveBegin
    \/ SaveWrite
    \/ SaveReplace
    \/ SaveCrash
    \/ SaveRecover
    \/ LoadOpen
    \/ LoadRead

SpecStore == InitStore /\ [][NextStore]_vars

\* ------------------------------------------------- registration
\* A workflow class is constructed for a parameter file.
InitConfig ==
    /\ WorkflowIdle
    /\ MigrationIdle
    /\ durableFile = NoFile
    /\ StoreIdle
    /\ cls \in {"Base", "Migration"}
    /\ given \in SUBSET FileNames
    /\ required = EmptyRegistry
    /\ regPc = "new"
    /\ ndecl = 0
    /\ problems = {}
    /\ PAR_CASE \in (IF <<"par", "CASE">> \in given THEN CaseValues
                 ELSE {Absent})
    /\ PATH = [n \in {"MODEL_TRUE", "DATA"} |->
                  IF <<"path", n>> \in given THEN FilePath(n) ELSE Absent]
    /\ disk \in SUBSET DiskPaths
    /\ checked = NotChecked

\* __init__ up to the subclass's own declarations: the registry holds the
\* base class's declarations
Construct ==
    /\ regPc = "new"
    /\ required' = IF cls = "Migration" THEN AfterSuperInit(BaseRequired)
                   ELSE BaseRequired
    /\ regPc' = IF cls = "Migration" THEN "declaring" ELSE "registered"
    /\ UNCHANGED <<cls, given, ndecl, problems, PAR_CASE, PATH, disk,
                   checked>>
    /\ UNCHANGED <<wvars, svars, mvars>>

\* Migration.__init__ makes its next self.required.par/path call
DeclareNext ==
    /\ regPc = "declaring"
    /\ ndecl < Len(MigrationDeclarations)
    /\ required' = declare(required, MigrationDeclarations[ndecl + 1])
    /\ ndecl' = ndecl + 1
    /\ regPc' = IF ndecl + 1 = Len(MigrationDeclarations)
                THEN "registered" ELSE "declaring"
    /\ UNCHANGED <<cls, given, problems, PAR_CASE, PATH, disk, checked>>
    /\ UNCHANGED <<wvars, svars, mvars>>

\* validate(): every required entry the parameter file does not set
validate ==
    /\ regPc = "registered"
    /\ problems' = Missing(required, given)
    /\ regPc' = IF problems' = {} THEN "valid" ELSE "invalid"
    /\ IF problems' = {}
       THEN /\ PAR_CASE' = Defaulted(required, PAR_CASE, PATH).case
            /\ PATH' = Defaulted(required, PAR_CASE, PATH).path
       ELSE UNCHANGED <<PAR_CASE, PATH>>
    /\ UNCHANGED <<cls, given, required, ndecl, disk, checked>>
    /\ UNCHANGED <<wvars, svars, mvars>>

\* check(validate) of the constructed workflow
check ==
    /\ regPc = "registered"
    /\ \E val \in BOOLEAN :
          LET r == IF cls = "Migration"
                   THEN migration_check(val, required, given, PAR_CASE, PATH,
                                        disk)
                   ELSE base_check(val, required, given, PAR_CASE, PATH, disk)
          IN  /\ checked' = r.result
              /\ PAR_CASE' = r.case
              /\ PATH' = r.path
              /\ problems' = IF val THEN Missing(required, given)
                             ELSE problems
    /\ regPc' = "checked"
    /\ UNCHANGED <<cls, given, required, ndecl, disk>>
    /\ UNCHANGED <<wvars, svars, mvars>>

NextConfig ==
    \/ Construct
    \/ DeclareNext
    \/ validate
    \/ check

SpecConfig == InitConfig /\ [][NextConfig]_vars

\* ------------------------------------------------- Migration.main
\* lines 97-101: the flow Migration.main builds, whatever flow it was given
MigrationFlow ==
    <<Func("evaluate_initial_misfit"), Func("evaluate_gradient"),
      Func("process_kernels"), Func("scale_gradient")>>

\* the values a caller passes as flow: the default None, or a tuple
FlowArgs == {"None", "tuple"}

\* A Migration workflow whose main() has not been called.
InitMigration ==
    /\ flow = <<>>
    /\ PAR \in [RESUME_FROM : ParValues, STOP_AFTER : ParValues]
    /\ NTASK = 1
    /\ pc = "idle"
    /\ start = DefaultStart
    /\ stop = DefaultStop
    /\ slice = <<>>
    /\ idx = 0
    /\ pass = 1
    /\ run = 1
    /\ outcome = NoOutcome
    /\ logged = <<>>
    /\ checkpoint = Absent
    /\ running = {}
    /\ dispatched = FALSE
    /\ dispatch = NoDispatch
    /\ killedAfter = ""
    /\ log = <<>>
    /\ durableFile = NoFile
    /\ StoreIdle
    /\ RegistryIdle
    /\ MigrationIdle

\* lines 95-101: Migration.main is called and builds its flow
MigrationMain ==
    /\ pc = "idle"
    /\ depth = 0
    /\ \E fl \in FlowArgs, return_flow \in BOOLEAN :
          args' = Args(fl, return_flow)
    /\ depth' = 1
    /\ flow' = MigrationFlow
    /\ pc' = "main"
    /\ UNCHANGED <<PAR, NTASK, start, stop, slice, idx, pass, run, outcome,
                   logged, checkpoint, running, dispatched, dispatch,
                   killedAfter, log>>
    /\ UNCHANGED <<svars, rvars>>

\* line 103: self.main(flow=flow, return_flow=return_flow); self.main is
\* Migration.main, which is entered again and builds its flow
MigrationMainCallsSelfMain ==
    /\ pc = "main"
    /\ depth < MaxDepth
    /\ depth' = depth + 1
    /\ args' = Args("tuple", args.return_flow)
    /\ flow' = MigrationFlow
    /\ UNCHANGED <<PAR, NTASK, pc, start, stop, slice, idx, pass, run,
                   outcome, logged, checkpoint, running, dispatched, dispatch,
                   killedAfter, log>>
    /\ UNCHANGED <<svars, rvars>>

\* line 103 with the stack at the interpreter's limit: RecursionError, which
\* no frame catches
MigrationMainRecursionError ==
    /\ pc = "main"
    /\ depth = MaxDepth
    /\ pc' = "raised"
    /\ outcome' = Raised("RecursionError", "main")
    /\ depth' = 0
    /\ UNCHANGED <<flow, PAR, NTASK, start, stop, slice, idx, pass, run,
                   logged, checkpoint, running, dispatched, dispatch,
                   killedAfter, log, args>>
    /\ UNCHANGED <<svars, rvars>>

NextMigration ==
    \/ MigrationMain
    \/ MigrationMainCallsSelfMain
    \/ MigrationMainRecursionError

SpecMigration == InitMigration /\ [][NextMigration]_vars

\* ------------------------------------------------------ properties
\* the names of the steps with an `e` event in pass p, in order
EventSteps(e, p) ==
    LET sel == SelectSeq(log, LAMBDA x : x.ev = e /\ x.pass = p)
    IN  [i \in 1..Len(sel) |-> sel[i].step]

Begun(p) == EventSteps("begin", p)

\* main() was called to run the flow (not with return_flow)
Called == pc # "idle" /\ outcome # Returned("flow")

\* pass p of this process has finished
PassDone(p) == p < pass \/ (p = pass /\ pc = "returned")

\* the steps of fl from 0-based position lo up to, not including, hi
StepsFrom(fl, lo, hi) == SubSeq(StepNames(fl), lo + 1, hi)

\* C1: with RESUME_FROM and STOP_AFTER unset, the cursor spans the whole of a
\* non-empty flow and a finished pass of main() has executed every step of the
\* flow, first to last, in order, each once.
C1_FullRangeExecutesAll ==
    (/\ Called
     /\ ~Truthy(PAR.RESUME_FROM)
     /\ ~Truthy(PAR.STOP_AFTER)
     /\ Len(flow) > 0
     /\ run = 1 /\ pass = 1 /\ pc = "returned")
    => (slice = flow /\ Begun(1) = StepNames(flow))

\* C2: with RESUME_FROM naming a step s of the flow and STOP_AFTER unset,
\* cursor resolution returns start = position of s, and the pass executes the
\* steps from s to the end of the flow, each once, and none before s.
C2_ResumeFromStep ==
    (/\ Called
     /\ Truthy(PAR.RESUME_FROM)
     /\ IsStepOf(flow, PAR.RESUME_FROM.v)
     /\ ~Truthy(PAR.STOP_AFTER))
    => /\ outcome.where # "check_stop_resume_cond"
       /\ (pc = "for" /\ pass = 1 /\ idx = 0)
             => start = PosOf(flow, PAR.RESUME_FROM.v)
       /\ PassDone(1)
             => Begun(1) = StepsFrom(flow, PosOf(flow, PAR.RESUME_FROM.v),
                                     Len(flow))

\* C3: with STOP_AFTER naming a step s of the flow and RESUME_FROM unset, the
\* run executes the steps from the first up to and including s, none after
\* s, and returns success.
C3_StopAfterStep ==
    (/\ Called
     /\ Truthy(PAR.STOP_AFTER)
     /\ IsStepOf(flow, PAR.STOP_AFTER.v)
     /\ ~Truthy(PAR.RESUME_FROM))
    => /\ outcome.where \notin {"check_stop_resume_cond", "main"}
       /\ PassDone(1)
             => Begun(1) = StepsFrom(flow, 0,
                                     PosOf(flow, PAR.STOP_AFTER.v) + 1)

\* RESUME_FROM or STOP_AFTER is set to a name that is no step of the flow
UnknownName ==
    \/ Truthy(PAR.RESUME_FROM) /\ ~IsStepOf(flow, PAR.RESUME_FROM.v)
    \/ Truthy(PAR.STOP_AFTER) /\ ~IsStepOf(flow, PAR.STOP_AFTER.v)

\* C4: with RESUME_FROM or STOP_AFTER naming no step of the flow, cursor
\* resolution ends in the configuration error (the error message, then
\* sys.exit(-1)); it returns no cursor, the default one included.
C4_UnknownNameIsConfigError ==
    (Called /\ UnknownName)
    => (pc = "exited" /\ outcome = Exited("-1"))

\* C5: when cursor resolution ends main() with an error, no step of the flow
\* has been invoked and no checkpoint has been written.
C5_ErrorBeforeAnyStep ==
    outcome.where = "check_stop_resume_cond"
    => (log = <<>> /\ idx = 0 /\ checkpoint = Absent)

C5_Witness ==
    /\ UnknownName
    /\ Len(flow) = 2
    /\ outcome.where = "check_stop_resume_cond"
    /\ pc = "raised"

\* C6: a step begins only when no step and no task is in progress: the event
\* before a begin is the end of the step just before it in the flow (same
\* pass) or an end of an earlier pass; an end follows its own begin.
C6_StepsInOrderNoOverlap ==
    \A j \in 1..Len(log) :
        /\ log[j].ev = "begin" =>
              /\ log[j].inflight = 0
              /\ j > 1 =>
                    /\ log[j - 1].ev = "end"
                    /\ log[j - 1].pass <= log[j].pass
                    /\ log[j - 1].pass = log[j].pass
                          => PosOf(flow, log[j].step)
                               = PosOf(flow, log[j - 1].step) + 1
        /\ log[j].ev \in {"end", "raise"} =>
              /\ j > 1
              /\ log[j - 1].ev = "begin"
              /\ log[j - 1].step = log[j].step
              /\ log[j - 1].pass = log[j].pass

C6_Witness ==
    /\ Len(log) >= 5
    /\ log[Len(log)].ev = "begin"
    /\ log[Len(log)].pass = 2
    /\ log[2].ev = "end"
    /\ log[3].pass = 1
    /\ dispatched

\* C7: once a step has completed, and before the next step begins, the
\* checkpoint on disk names that step as the last completed one.
C7_CheckpointAfterEveryStep ==
    /\ \A j \in 2..Len(log) :
          (log[j].ev = "begin" /\ log[j - 1].ev = "end")
              => log[j].ckpt = log[j - 1].step
    /\ (Len(log) > 0 /\ log[Len(log)].ev = "end" /\ pc \in {"for", "returned"})
          => checkpoint = log[Len(log)].step

\* C8: a step that raises was invoked once in its pass, no step event follows
\* it, the checkpoint is what it was when the step began, and main() ends
\* with the step's exception, which names the step.
C8_StepFailureStops ==
    \A j \in 1..Len(log) :
        log[j].ev = "raise" =>
            /\ j = Len(log)
            /\ pc = "raised"
            /\ outcome.kind = "exception"
            /\ outcome.where = log[j].step
            /\ Cardinality({k \in 1..Len(log) :
                   /\ log[k].ev = "begin"
                   /\ log[k].step = log[j].step
                   /\ log[k].pass = log[j].pass}) = 1
            /\ j > 1
            /\ log[j - 1].ev = "begin"
            /\ checkpoint = log[j - 1].ckpt

C8_Witness ==
    /\ pc = "raised"
    /\ Len(log) = 4
    /\ log[4].ev = "raise"
    /\ outcome.where = flow[2].v

\* C9: with RESUME_FROM naming a step s of the flow, the first pass executes
\* the steps from s on and every later pass executes the whole flow.
C9_OnlyFirstPassResumes ==
    (/\ Called
     /\ Truthy(PAR.RESUME_FROM)
     /\ IsStepOf(flow, PAR.RESUME_FROM.v)
     /\ ~Truthy(PAR.STOP_AFTER))
    => /\ outcome.where # "check_stop_resume_cond"
       /\ \A p \in 1..pass :
             PassDone(p) =>
                Begun(p) = IF p = 1
                           THEN StepsFrom(flow,
                                    PosOf(flow, PAR.RESUME_FROM.v), Len(flow))
                           ELSE StepNames(flow)

\* C10: a process restarted with RESUME_FROM unset, after a kill that came
\* immediately after step i completed, begins at step i+1 and executes
\* neither step i nor an earlier step again.
C10_RestartSkipsCompleted ==
    (/\ run > 1
     /\ pc # "killed"
     /\ killedAfter # ""
     /\ ~Truthy(PAR.RESUME_FROM))
    => \A j \in 1..Len(log) :
          (log[j].ev = "begin" /\ log[j].pass = 1)
              => /\ PosOf(flow, log[j].step) > PosOf(flow, killedAfter)
                 /\ j = 1 => PosOf(flow, log[j].step)
                               = PosOf(flow, killedAfter) + 1

\* the position in the flow a cursor index stands for
CursorPos(i) == SliceBound(i, Len(flow))

\* main() holds a cursor that check_stop_resume_cond returned
CursorReturned ==
    /\ Called
    /\ outcome.where # "check_stop_resume_cond"

C20_StopAfterLastStep ==
    (/\ Called
     /\ Len(flow) > 0
     /\ Truthy(PAR.STOP_AFTER)
     /\ PAR.STOP_AFTER.v = flow[Len(flow)].v
     /\ ~Truthy(PAR.RESUME_FROM))
    => /\ outcome.where # "check_stop_resume_cond"
       /\ (pc = "for" /\ pass = 1 /\ idx = 0) => stop = Len(flow)
       /\ PassDone(1) => Begun(1) = StepNames(flow)

\* the step whose system.run call `dispatch` records
DispatchStep == slice[idx].v

\* a system.run call has been made by the current step
InDispatch == dispatched /\ idx > 0 /\ dispatch.result # "none"

\* C12: a call with single=True starts exactly one instance whatever NTASK
\* is, and the process_kernels step runs postprocess_kernels that way: once.
C12_SingleRunsOnce ==
    InDispatch =>
        /\ dispatch.single => Cardinality(dispatch.started) = 1
        /\ DispatchStep = "process_kernels" =>
              /\ dispatch.method = "postprocess_kernels"
              /\ Cardinality(dispatch.started) = 1

C12_Witness ==
    /\ InDispatch
    /\ NTASK = 2
    /\ DispatchStep = "process_kernels"
    /\ dispatch.single
    /\ dispatch.result = "success"
    /\ dispatch.ok = {0}

\* C13: the fan-out call of evaluate_gradient has succeeded only with all of
\* the instances 0..NTASK-1 started and each completed with zero status; it
\* stays pending, the step blocked in it, while no instance has failed and
\* one is running; a step never ends with an instance in flight.
C13_AllInstancesOrFailure ==
    /\ InDispatch =>
          /\ dispatch.result \in {"pending", "success", "failure", "timeout"}
          /\ dispatch.result = "success" =>
                /\ dispatch.ok = dispatch.started
                /\ running = {}
                /\ DispatchStep = "evaluate_gradient"
                      => dispatch.started = 0..(NTASK - 1)
          /\ (running # {} /\ dispatch.failed = -1)
                => (dispatch.result = "pending" /\ pc = "func")
          /\ dispatch.result = "pending" => running # {}
    /\ \A j \in 1..Len(log) : log[j].ev = "end" => log[j].inflight = 0

C13_Witness ==
    /\ InDispatch
    /\ NTASK = 2
    /\ DispatchStep = "evaluate_gradient"
    /\ dispatch.result = "success"
    /\ dispatch.ok = {0, 1}
    /\ pc = "for"

\* the workflow stopped in the step whose call failed: main() ended with an
\* exception naming the step, and the last step event is its failure
StoppedInStep ==
    /\ pc = "raised"
    /\ outcome.kind = "exception"
    /\ outcome.where = DispatchStep
    /\ Len(log) > 0
    /\ log[Len(log)].ev = "raise"
    /\ log[Len(log)].step = DispatchStep

DurableWhole == durableFile.exists => Len(durableFile.data) = NumFields

\* C17: whatever the interleaving of save's steps with load's, and also
\* when the process dies inside save, the durable file is never a partly
\* written record, and what load returns is absent or a whole record that
\* was the durable one at some moment of the load: the previous one, or
\* the new one of a save that completed meanwhile.
C17_SaveAtomicForLoad ==
    /\ DurableWhole
    /\ loaded # NoResult =>
          /\ loaded.kind \in {"absent", "record"}
          /\ loaded \in seen
          /\ loaded.kind = "record" => Parse(loaded.data) \in Records

C17_Witness ==
    /\ savePc = "crashed"
    /\ tempFile.exists
    /\ Len(tempFile.data) = 1
    /\ loaded.kind = "record"
    /\ loaded.data = durableFile.data
    /\ loaded.data # saving

\* C18: once the base class's __init__ has run, and after each of the
\* variant's own declarations, every parameter and path the base class
\* declares is declared in the variant's registry.
C18_DeclarationsAccumulate ==
    regPc # "new" => Declared(BaseRequired) \subseteq Declared(required)

C18_Witness ==
    /\ cls = "Migration"
    /\ regPc = "registered"
    /\ ndecl = Len(MigrationDeclarations)
    /\ <<"path", "GRAD">> \in Declared(required)
    /\ <<"par", "RESUME_FROM">> \in Declared(required)
    /\ Declared(required) # Declared(BaseRequired)

\* C21: with RESUME_FROM = r and STOP_AFTER = t both naming steps of the
\* flow, r at or before t, cursor resolution returns and the finished pass
\* has executed exactly the steps from r through t, in flow order, each
\* once.
C21_ResumeAndStopRange ==
    (/\ Called
     /\ Truthy(PAR.RESUME_FROM)
     /\ IsStepOf(flow, PAR.RESUME_FROM.v)
     /\ Truthy(PAR.STOP_AFTER)
     /\ IsStepOf(flow, PAR.STOP_AFTER.v)
     /\ PosOf(flow, PAR.RESUME_FROM.v) <= PosOf(flow, PAR.STOP_AFTER.v))
    => /\ outcome.where \notin {"check_stop_resume_cond", "main"}
       /\ PassDone(1)
             => Begun(1) = StepsFrom(flow, PosOf(flow, PAR.RESUME_FROM.v),
                                     PosOf(flow, PAR.STOP_AFTER.v) + 1)

\* the step names cursor resolution logged in the messages with text txt
Reported(txt) ==
    LET sel == SelectSeq(logged, LAMBDA m : m.text = txt)
    IN  [i \in 1..Len(sel) |-> sel[i].name]

\* C26: once cursor resolution has run in the first call of main(), for a
\* STOP_AFTER naming a step of the flow the message 'WORKFLOW WILL STOP AFTER
\* FUNC' has been logged with that name, and for such a RESUME_FROM the
\* message 'WORKFLOW WILL RESUME FROM FUNC' with that name.
C26_MessagesNameTheGivenSteps ==
    (Called /\ run = 1) =>
        /\ (Truthy(PAR.STOP_AFTER) /\ IsStepOf(flow, PAR.STOP_AFTER.v)
            /\ (Truthy(PAR.RESUME_FROM) => IsStepOf(flow, PAR.RESUME_FROM.v)))
              => Reported("WORKFLOW WILL STOP AFTER FUNC")
                     = <<PAR.STOP_AFTER.v>>
        /\ (Truthy(PAR.RESUME_FROM) /\ IsStepOf(flow, PAR.RESUME_FROM.v))
              => Reported("WORKFLOW WILL RESUME FROM FUNC")
                     = <<PAR.RESUME_FROM.v>>

\* the call of main() has ended: returned, raised or exited
Ended == pc \in {"returned", "raised", "exited"}

\* C22: when a call of Migration.main with return_flow false has ended, it
\* has returned and the four steps evaluate_initial_misfit,
\* evaluate_gradient, process_kernels and scale_gradient have each been
\* executed once, in that order.
C22_MigrationMainRunsFourSteps ==
    (Ended /\ args # NoArgs /\ ~args.return_flow)
    => /\ outcome.kind = "return"
       /\ Begun(1) = StepNames(MigrationFlow)
       /\ EventSteps("end", 1) = StepNames(MigrationFlow)

\* nothing but the call itself has happened: no step has begun, the cursor
\* is untouched, nothing was logged by cursor resolution, no checkpoint
NoEffect ==
    /\ log = <<>>
    /\ logged = <<>>
    /\ start = DefaultStart
    /\ stop = DefaultStop
    /\ checkpoint = Absent
    /\ ~dispatched

\* C25: when a call of Migration.main with return_flow true has ended, it
\* has returned the flow, and nothing else has happened, whatever
\* RESUME_FROM and STOP_AFTER are.
C25_ReturnFlowOnly ==
    (Ended /\ args.return_flow)
    => /\ outcome = Returned("flow")
       /\ NoEffect

\* check() has ended with CASE equal to 'synthetic' in some letter case and
\* the MODEL_TRUE path not on disk
SyntheticWithoutModelTrue ==
    /\ checked.kind # "none"
    /\ PAR_CASE \notin {Absent, NoDefault}
    /\ Upper(PAR_CASE) = "SYNTHETIC"
    /\ PATH.MODEL_TRUE \notin disk

\* C23 as stated: in that state check() has failed with an assertion error,
\* validate true or false.
C23_SyntheticFailsWithAssertion ==
    SyntheticWithoutModelTrue =>
        /\ checked.kind = "exception"
        /\ checked.type = "AssertionError"

\* C23 as amended: in that state check() has never passed, validate true or
\* false; it has failed with the assertion error 'CASE == SYNTHETIC requires
\* PATH.MODEL_TRUE' whenever validate() was not called or passed and PATH
\* has a MODEL_TRUE entry, with validate()'s configuration error when
\* validate() failed, and on reading PATH.MODEL_TRUE when PATH has no such
\* entry.
C23_SyntheticNeverPasses ==
    SyntheticWithoutModelTrue =>
        /\ checked.kind = "exception"
        /\ checked.type \in
              {"AssertionError", "ConfigurationError", "AttributeError"}
        /\ checked.type = "AssertionError" <=>
              /\ checked.validate => problems = {}
              /\ PATH.MODEL_TRUE # Absent
        /\ checked.type = "AssertionError" =>
              checked.message = "CASE == SYNTHETIC requires PATH.MODEL_TRUE"
        /\ checked.type = "ConfigurationError" <=>
              (checked.validate /\ problems # {})

C23_Witness ==
    /\ SyntheticWithoutModelTrue
    /\ cls = "Migration"
    /\ PAR_CASE = "Synthetic"
    /\ checked.validate
    /\ PATH.MODEL_TRUE = "WORKDIR/specfem/MODEL_TRUE"
    /\ checked.type = "AssertionError"

\* C24: when check() has ended with DATA unset or not on disk and MODEL_TRUE
\* not on disk either, it has not passed, and an assertion error it has
\* failed with where CASE is not synthetic is 'DATA or MODEL_TRUE must
\* exist'.
C24_DataOrModelTrueMustExist ==
    (/\ checked.kind # "none"
     /\ PATH.DATA \notin disk
     /\ PATH.MODEL_TRUE \notin disk)
    => /\ checked.kind = "exception"
       /\ (/\ checked.type = "AssertionError"
           /\ PAR_CASE \notin {Absent, NoDefault}
           /\ Upper(PAR_CASE) # "SYNTHETIC")
             => checked.message = "DATA or MODEL_TRUE must exist"

====
